---- MODULE Spec2Model ----
(***************************************************************************)
(* Model of tutorials/semantic_chunking.ipynb: the text normaliser         *)
(* preprocess_text and the notebook's linear pipeline                      *)
(* download -> preprocess -> chunk -> embed -> build index -> query.       *)
(* Texts are sequences of one-character strings.                           *)
(***************************************************************************)
EXTENDS Integers, Sequences, FiniteSets, TLC

\* ------------------------------------------------------------- bounds
\* Longest input text drawn for the normaliser.
MaxLen == 4
\* Largest min_length drawn for the normaliser (0..MaxMinLength).
MaxMinLength == 3
\* Most chunks the chunker returns in the modelled runs.
MaxChunks == 2
\* Embedding vectors are the numbers 0..MaxVec.
MaxVec == 1

\* ------------------------------------------------------------- notebook constants
\* min_length: int = 5
DefaultMinLength == 5
\* vicinity.query(query_embedding, k=3)
K == 3
\* queries = ["Emperor Napoleon", "The battle of Austerlitz", "Paris"]
NumQueries == 3

\* ------------------------------------------------------------- alphabet
\* The characters the regular expression of preprocess_text distinguishes.
Terminal == {".", "!", "?"}
\* Characters str.split() and str.strip() treat as whitespace.
Whitespace == {" ", "\n", "\r", "\t"}
\* The characters input texts are drawn from: a letter, the whitespace the
\* function replaces or keeps, and the three terminal marks.
Alphabet == {"a", " ", "\n", "\r", "\t", ".", "!", "?"}

RECURSIVE SeqsUpTo(_, _)
SeqsUpTo(S, n) ==
    IF n = 0 THEN {<<>>}
    ELSE LET shorter == SeqsUpTo(S, n - 1)
         IN  shorter \cup {Append(s, c) : s \in {t \in shorter : Len(t) = n - 1}, c \in S}

Texts == SeqsUpTo(Alphabet, MaxLen)

\* ------------------------------------------------------------- preprocess_text
\* str.replace(old, new) for one-character old and new.
replace(text, old, new) ==
    [i \in 1..Len(text) |-> IF text[i] = old THEN new ELSE text[i]]

\* Where a match of [^.!?]*[.!?] that starts at p ends: the first terminal
\* at or after p; 0 when there is none (the match fails at p and, every
\* later start facing the same tail, at every later position).
RECURSIVE match_end(_, _)
match_end(text, p) ==
    IF p > Len(text) THEN 0
    ELSE IF text[p] \in Terminal THEN p
    ELSE match_end(text, p + 1)

\* re.findall(r'[^.!?]*[.!?]', text), scanning from position p: the
\* non-overlapping matches, left to right.
RECURSIVE findall(_, _)
findall(text, p) ==
    LET q == match_end(text, p)
    IN  IF q = 0 THEN <<>>
        ELSE <<SubSeq(text, p, q)>> \o findall(text, q + 1)

\* str.split(): the maximal runs of non-whitespace characters, in order.
\* cur is the word being read.
RECURSIVE split_from(_, _, _)
split_from(s, i, cur) ==
    IF i > Len(s) THEN (IF cur = <<>> THEN <<>> ELSE <<cur>>)
    ELSE IF s[i] \in Whitespace
         THEN (IF cur = <<>> THEN <<>> ELSE <<cur>>) \o split_from(s, i + 1, <<>>)
         ELSE split_from(s, i + 1, Append(cur, s[i]))

split(s) == split_from(s, 1, <<>>)

RECURSIVE lstrip(_)
lstrip(s) ==
    IF s # <<>> /\ Head(s) \in Whitespace THEN lstrip(Tail(s)) ELSE s

RECURSIVE rstrip(_)
rstrip(s) ==
    IF s # <<>> /\ s[Len(s)] \in Whitespace
    THEN rstrip(SubSeq(s, 1, Len(s) - 1)) ELSE s

\* A variant of strip that leaves the sentence as matched.
strip_none(s) == s

\* str.strip(): leading and trailing whitespace removed.
strip(s) == rstrip(lstrip(s))

\* sep.join(parts)
RECURSIVE join(_, _)
join(sep, parts) ==
    IF parts = <<>> THEN <<>>
    ELSE IF Len(parts) = 1 THEN parts[1]
    ELSE parts[1] \o sep \o join(sep, Tail(parts))

\* A variant of the filter that keeps a sentence only when it has more
\* than min_length words.
RECURSIVE filter_sentences_strict(_, _)
filter_sentences_strict(sentences, min_length) ==
    IF sentences = <<>> THEN <<>>
    ELSE (IF Len(split(Head(sentences))) > min_length
          THEN <<strip(Head(sentences))>> ELSE <<>>)
         \o filter_sentences_strict(Tail(sentences), min_length)

\* The list comprehension of preprocess_text: the stripped sentences whose
\* word count is at least min_length, in order.
RECURSIVE filter_sentences(_, _)
filter_sentences(sentences, min_length) ==
    IF sentences = <<>> THEN <<>>
    ELSE (IF Len(split(Head(sentences))) >= min_length
          THEN <<strip(Head(sentences))>> ELSE <<>>)
         \o filter_sentences(Tail(sentences), min_length)

\* A variant of the normaliser that replaces newlines only.
preprocess_text_keep_cr(text, min_length) ==
    LET t1 == replace(text, "\n", " ")
    IN  join(<<" ">>, filter_sentences(findall(t1, 1), min_length))

preprocess_text(text, min_length) ==
    LET t1 == replace(text, "\n", " ")
        t2 == replace(t1, "\r", " ")
        sentences == findall(t2, 1)
    IN  join(<<" ">>, filter_sentences(sentences, min_length))

\* ------------------------------------------------------------- state
VARIABLES
    text,             \* the argument of preprocess_text
    min_length,       \* its min_length argument
    doc,              \* preprocess_text(text, min_length), once computed
    doc2,             \* preprocess_text(doc, min_length), once computed
    npc,              \* "start", "normalized", "renormalized"
    pc,               \* the notebook statement to run next
    bound,            \* the notebook names assigned so far
    response,         \* what requests.get returned: [ok, text]
    book_text,
    chunks,           \* sequence of chunk objects [text |-> ...]
    chunk_texts,
    chunk_embeddings,
    vicinity,         \* [vectors, items]
    qi,               \* index of the query the loop is at
    query_embedding,
    results,          \* items of vicinity.query(...)[0], in order
    gets,             \* calls of requests.get made
    stages            \* the stages completed, in order of completion

nvars == <<text, min_length, doc, doc2, npc>>
pvars == <<pc, bound, response, book_text, chunks, chunk_texts,
           chunk_embeddings, vicinity, qi, query_embedding, results, gets,
           stages>>
vars == <<nvars, pvars>>

\* Nothing of the notebook has run.
PIdle ==
    /\ pc = "get"
    /\ bound = {}
    /\ response = [ok |-> FALSE, text |-> <<>>]
    /\ book_text = <<>>
    /\ chunks = <<>>
    /\ chunk_texts = <<>>
    /\ chunk_embeddings = <<>>
    /\ vicinity = [vectors |-> <<>>, items |-> <<>>]
    /\ qi = 1
    /\ query_embedding = 0
    /\ results = <<>>
    /\ gets = 0
    /\ stages = <<>>

\* ------------------------------------------------------------- normaliser runs
NInit ==
    /\ text \in Texts
    /\ min_length \in 0..MaxMinLength
    /\ doc = <<>>
    /\ doc2 = <<>>
    /\ npc = "start"
    /\ PIdle

\* book_text = preprocess_text(book_text, min_length)
Normalize ==
    /\ npc = "start"
    /\ doc' = preprocess_text(text, min_length)
    /\ npc' = "normalized"
    /\ UNCHANGED <<text, min_length, doc2, pvars>>

\* preprocess_text applied to its own output
Renormalize ==
    /\ npc = "normalized"
    /\ doc2' = preprocess_text(doc, min_length)
    /\ npc' = "renormalized"
    /\ UNCHANGED <<text, min_length, doc, pvars>>

NNext == Normalize \/ Renormalize

SpecNormalizer == NInit /\ [][NNext]_vars

\* ------------------------------------------------------------- the notebook
\* Bodies the server may answer with status 200: a book with one long and
\* one short sentence, a book with two long sentences, an empty file.
BookBodies ==
    { <<"a", " ", "a", " ", "a", " ", "a", " ", "a", ".", "\n", "a", " ", "a", ".">>,
      <<"a", " ", "a", " ", "a", " ", "a", " ", "a", "!", "\r", "\n",
        "a", " ", "a", " ", "a", " ", "a", " ", "a", "?">>,
      <<>> }

\* Bodies of an error answer (status 4xx or 5xx): an error page with one
\* long sentence, and a short one.
ErrorBodies ==
    { <<"e", " ", "e", " ", "e", " ", "e", " ", "e", ".">>,
      <<"e", ".">> }

Vectors == 0..MaxVec

\* The chunk texts chunker.chunk may return for a document: its spans from
\* the start of a sentence to the end of a sentence.
ChunkTexts(document) ==
    LET ends == {i \in 1..Len(document) : document[i] \in Terminal}
        starts == {1} \cup {e + 1 : e \in {x \in ends : x < Len(document)}}
    IN  {SubSeq(document, se[1], se[2]) :
            se \in {x \in starts \X ends : x[1] <= x[2]}}

\* Sequences over S of length 0..n.
SeqsOf(S, n) == UNION {[1..k -> S] : k \in 0..n}

Min(a, b) == IF a <= b THEN a ELSE b

\* response = requests.get(url); book_text = response.text
\* requests.get raises when no answer arrives, and returns the answer, with
\* whatever status it has, when one does; the status is not looked at.
Get ==
    /\ pc = "get"
    /\ gets' = gets + 1
    /\ \/ /\ pc' = "failed"
          /\ UNCHANGED <<bound, response, book_text>>
       \/ /\ \E body \in BookBodies :
                /\ response' = [ok |-> TRUE, text |-> body]
                /\ book_text' = body
          /\ bound' = bound \cup {"response", "book_text"}
          /\ pc' = "preprocess"
       \/ /\ \E body \in ErrorBodies :
                /\ response' = [ok |-> FALSE, text |-> body]
                /\ book_text' = body
          /\ bound' = bound \cup {"response", "book_text"}
          /\ pc' = "preprocess"
    /\ UNCHANGED <<chunks, chunk_texts, chunk_embeddings, vicinity, qi,
                   query_embedding, results, stages, nvars>>

\* book_text = preprocess_text(book_text)
Preprocess ==
    /\ pc = "preprocess"
    /\ book_text' = preprocess_text(book_text, DefaultMinLength)
    /\ stages' = Append(stages, "normalize")
    /\ pc' = "chunk"
    /\ UNCHANGED <<bound, response, chunks, chunk_texts, chunk_embeddings,
                   vicinity, qi, query_embedding, results, gets, nvars>>

\* chunks = chunker.chunk(book_text)
Chunk ==
    /\ pc = "chunk"
    /\ \E cs \in SeqsOf(ChunkTexts(book_text), MaxChunks) :
          chunks' = [i \in 1..Len(cs) |-> [text |-> cs[i]]]
    /\ bound' = bound \cup {"chunks"}
    /\ stages' = Append(stages, "segment")
    /\ pc' = "print_examples"
    /\ UNCHANGED <<response, book_text, chunk_texts, chunk_embeddings,
                   vicinity, qi, query_embedding, results, gets, nvars>>

\* for _ in range(3): chunk = random.choice(chunks); print(chunk.text)
\* random.choice raises IndexError on an empty list.
PrintExamples ==
    /\ pc = "print_examples"
    /\ pc' = IF chunks = <<>> THEN "failed" ELSE "encode_chunks"
    /\ UNCHANGED <<bound, response, book_text, chunks, chunk_texts,
                   chunk_embeddings, vicinity, qi, query_embedding, results,
                   gets, stages, nvars>>

\* chunk_texts = [chunk.text for chunk in chunks]
\* chunk_embeddings = model.encode(chunk_texts)
EncodeChunks ==
    /\ pc = "encode_chunks"
    /\ chunk_texts' = [i \in 1..Len(chunks) |-> chunks[i].text]
    /\ chunk_embeddings' \in [1..Len(chunks) -> Vectors]
    /\ bound' = bound \cup {"chunk_texts", "chunk_embeddings"}
    /\ stages' = Append(stages, "embed")
    /\ pc' = "build"
    /\ UNCHANGED <<response, book_text, chunks, vicinity, qi,
                   query_embedding, results, gets, nvars>>

\* A variant of the index build that also runs in place of the embedding
\* cell, on whatever embeddings exist by then.
BuildIndexEarly ==
    /\ pc \in {"encode_chunks", "build"}
    /\ vicinity' = [vectors |-> chunk_embeddings, items |-> chunk_texts]
    /\ bound' = bound \cup {"vicinity"}
    /\ stages' = Append(stages, "build")
    /\ pc' = "encode_query"
    /\ UNCHANGED <<response, book_text, chunks, chunk_texts,
                   chunk_embeddings, qi, query_embedding, results, gets, nvars>>

\* vicinity = Vicinity.from_vectors_and_items(vectors=chunk_embeddings,
\*                                            items=chunk_texts)
BuildIndex ==
    /\ pc = "build"
    /\ vicinity' = [vectors |-> chunk_embeddings, items |-> chunk_texts]
    /\ bound' = bound \cup {"vicinity"}
    /\ stages' = Append(stages, "build")
    /\ pc' = "encode_query"
    /\ UNCHANGED <<response, book_text, chunks, chunk_texts,
                   chunk_embeddings, qi, query_embedding, results, gets, nvars>>

\* query_embedding = model.encode(query)
EncodeQuery ==
    /\ pc = "encode_query"
    /\ query_embedding' \in Vectors
    /\ bound' = bound \cup {"query_embedding"}
    /\ pc' = "query"
    /\ UNCHANGED <<response, book_text, chunks, chunk_texts,
                   chunk_embeddings, vicinity, qi, results, gets, stages, nvars>>

\* results = vicinity.query(query_embedding, k=3)[0], then the printing loop
\* and the step to the next query. The library's answer is some sequence of
\* at most k of the index's items.
QueryIndex ==
    /\ pc = "query"
    /\ \E r \in SeqsOf(1..Len(vicinity.items), Min(K, Len(vicinity.items))) :
          results' = [i \in 1..Len(r) |-> vicinity.items[r[i]]]
    /\ bound' = bound \cup {"results"}
    /\ stages' = Append(stages, "query")
    /\ IF qi < NumQueries
       THEN qi' = qi + 1 /\ pc' = "encode_query"
       ELSE qi' = qi /\ pc' = "done"
    /\ UNCHANGED <<response, book_text, chunks, chunk_texts,
                   chunk_embeddings, vicinity, query_embedding, gets, nvars>>

Init ==
    /\ PIdle
    /\ text = <<>>
    /\ min_length = DefaultMinLength
    /\ doc = <<>>
    /\ doc2 = <<>>
    /\ npc = "start"

Next ==
    \/ Get
    \/ Preprocess
    \/ Chunk
    \/ PrintExamples
    \/ EncodeChunks
    \/ BuildIndex
    \/ EncodeQuery
    \/ QueryIndex

Spec == Init /\ [][Next]_vars

\* ------------------------------------------------------------- normaliser claims
\* The text after both replacements, stated position by position.
Normalized(t) ==
    [i \in 1..Len(t) |-> IF t[i] \in {"\n", "\r"} THEN " " ELSE t[i]]

\* The positions where a sentence ends: every terminal mark.
SentenceEnds(t) == {i \in 1..Len(t) : t[i] \in Terminal}

\* The sentence ending at e is the maximal run of non-terminal characters
\* before e, with the mark at e.
SentenceStart(t, e) ==
    CHOOSE b \in 1..e :
        /\ \A j \in b..(e - 1) : t[j] \notin Terminal
        /\ b = 1 \/ t[b - 1] \in Terminal

SentenceAt(t, e) == SubSeq(t, SentenceStart(t, e), e)

\* Whitespace-split word count: the number of positions where a word starts.
WordCount(s) ==
    Cardinality({i \in 1..Len(s) :
        s[i] \notin Whitespace /\ (i = 1 \/ s[i - 1] \in Whitespace)})

\* s from its first to its last non-whitespace character.
Trimmed(s) ==
    LET ink == {i \in 1..Len(s) : s[i] \notin Whitespace}
    IN  IF ink = {} THEN <<>>
        ELSE SubSeq(s, CHOOSE i \in ink : \A j \in ink : i <= j,
                       CHOOSE i \in ink : \A j \in ink : j <= i)

\* The ends of the sentences with at least m words.
KeptEnds(t, m) == {e \in SentenceEnds(t) : WordCount(SentenceAt(t, e)) >= m}

RECURSIVE SumTrimmed(_, _)
SumTrimmed(t, ends) ==
    IF ends = {} THEN 0
    ELSE LET e == CHOOSE x \in ends : TRUE
         IN  Len(Trimmed(SentenceAt(t, e))) + 1 + SumTrimmed(t, ends \ {e})

\* d is the single-space join, in document order, of the trimmed sentences
\* of t that have at least m words: each kept sentence sits in d right after
\* the kept sentences before it, a single space precedes each but the first,
\* and d holds nothing else.
IsJoinOfKept(d, t, m) ==
    LET kept == KeptEnds(t, m)
        Offset(e) == SumTrimmed(t, {x \in kept : x < e})
    IN  /\ Len(d) = IF kept = {} THEN 0 ELSE SumTrimmed(t, kept) - 1
        /\ \A e \in kept :
              LET s == Trimmed(SentenceAt(t, e))
              IN  /\ Offset(e) + Len(s) <= Len(d)
                  /\ SubSeq(d, Offset(e) + 1, Offset(e) + Len(s)) = s
                  /\ Offset(e) > 0 => d[Offset(e)] = " "

\* C1: preprocess_text returns exactly the single-space join, in document
\* order, of the stripped sentences whose word count is >= min_length.
C1_JoinOfQualifyingSentences ==
    npc # "start" => IsJoinOfKept(doc, Normalized(text), min_length)

\* C1 witness: a text with a kept sentence and a discarded one was normalised.
C1_Witness ==
    /\ npc = "normalized"
    /\ KeptEnds(Normalized(text), min_length) # {}
    /\ KeptEnds(Normalized(text), min_length) # SentenceEnds(text)
    /\ doc # <<>>

\* C2: normalising an already normalised document changes nothing.
C2_Idempotent ==
    npc = "renormalized" => doc2 = doc

\* C2 witness: a document of two or more sentences that differs from its
\* source text was normalised again.
C2_Witness ==
    /\ npc = "renormalized"
    /\ Cardinality(SentenceEnds(doc)) >= 2
    /\ doc # text

\* C3: the document holds no newline and no carriage return.
C3_NoLineBreaks ==
    npc # "start" => \A i \in 1..Len(doc) : doc[i] \notin {"\n", "\r"}

\* C3 witness: a text with a line break inside a sentence was normalised and
\* every character position of it survived.
C3_Witness ==
    /\ npc = "normalized"
    /\ \E i \in 2..(Len(text) - 1) :
          /\ text[i] \in {"\n", "\r"}
          /\ text[i - 1] = "a"
          /\ text[i + 1] = "a"
          /\ Len(doc) = Len(text)
          /\ doc[i] = " "

\* ------------------------------------------------------------- pipeline claims
\* The stages in the order the notebook runs them; the query stage (a query
\* embedded and answered) then repeats once per query.
StageOrder == <<"normalize", "segment", "embed", "build">>

\* C8: the stages complete in the fixed order normalise, segment, embed,
\* build, query; chunks exist only once the text they were cut from is the
\* normalised text, the index exists only once every chunk has its embedding
\* and holds exactly those, and an answer exists only once the index does.
C8_StagesInOrder ==
    /\ \A i \in 1..Len(stages) :
          stages[i] = IF i <= Len(StageOrder) THEN StageOrder[i] ELSE "query"
    /\ "chunks" \in bound =>
          /\ Len(stages) >= 2
          /\ book_text = preprocess_text(response.text, DefaultMinLength)
    /\ "vicinity" \in bound =>
          /\ "chunk_embeddings" \in bound
          /\ Len(chunk_embeddings) = Len(chunks)
          /\ vicinity.vectors = chunk_embeddings
          /\ vicinity.items = [i \in 1..Len(chunks) |-> chunks[i].text]
    /\ "results" \in bound => "vicinity" \in bound
    /\ "query_embedding" \in bound => "vicinity" \in bound

\* C8 witness: a run over two chunks of a downloaded book reached the end
\* with an answer.
C8_Witness ==
    /\ pc = "done"
    /\ response.ok
    /\ Len(chunks) = 2
    /\ Len(results) >= 1
    /\ Len(stages) = Len(StageOrder) + NumQueries

\* C9: when the text could not be retrieved (no answer, or an error answer),
\* the loader fails after its one attempt, no document is produced and no
\* later stage runs.
C9_FailedFetchStopsPipeline ==
    (gets > 0 /\ ~response.ok) =>
        /\ gets = 1
        /\ pc = "failed"
        /\ stages = <<>>
        /\ bound \cap {"chunks", "chunk_embeddings", "vicinity", "results"} = {}

====
